---------------------------- MODULE Spec2Model ----------------------------
(***************************************************************************)
(* Sales dashboard (dsa.py): the dataset df, the three filter dropdowns,   *)
(* the dashboard callback update_dashboard and the question callback       *)
(* analyze_data_view.  Text is modelled as sequences of one-character      *)
(* strings so that lower(), strip(), title(), substring tests and the      *)
(* regular expressions of the question matcher are computed, not assumed.  *)
(***************************************************************************)
EXTENDS Integers, Sequences, FiniteSets, TLC

(* ------------------------------------------------------------------ *)
(* Characters and Python str methods                                   *)
(* ------------------------------------------------------------------ *)
LowerLetters == <<"a", "b", "c", "d", "e", "f", "g", "h", "i", "j", "k", "l", "m", "n", "o", "p", "q", "r", "s", "t", "u", "v", "w", "x", "y", "z">>
UpperLetters == <<"A", "B", "C", "D", "E", "F", "G", "H", "I", "J", "K", "L", "M", "N", "O", "P", "Q", "R", "S", "T", "U", "V", "W", "X", "Y", "Z">>
Digits == <<"0", "1", "2", "3", "4", "5", "6", "7", "8", "9">>

SpaceChars == {" "}

LowerSet == {LowerLetters[i] : i \in 1..Len(LowerLetters)}

UpperSet == {UpperLetters[i] : i \in 1..Len(UpperLetters)}

DigitSet == {Digits[i] : i \in 1..Len(Digits)}

\* lower and upper case of the letters
ToLower ==
    [c \in UpperSet |->
        LowerLetters[CHOOSE i \in 1..Len(UpperLetters) : UpperLetters[i] = c]]

ToUpper ==
    [c \in LowerSet |->
        UpperLetters[CHOOSE i \in 1..Len(LowerLetters) : LowerLetters[i] = c]]

IsSpace(c) == c \in SpaceChars

IsCased(c) == c \in LowerSet \/ c \in UpperSet

\* \w of a Python 3 str pattern, over the characters of the model
WordChars == LowerSet \cup UpperSet \cup DigitSet \cup {"_"}

LowerChar(c) == IF c \in UpperSet THEN ToLower[c] ELSE c

UpperChar(c) == IF c \in LowerSet THEN ToUpper[c] ELSE c

\* str.lower()
str_lower(s) == [i \in 1..Len(s) |-> LowerChar(s[i])]

\* str.strip(): drop leading and trailing whitespace
str_strip(s) ==
    LET keep == {i \in 1..Len(s) : ~IsSpace(s[i])}
    IN  IF keep = {} THEN <<>>
        ELSE LET lo == CHOOSE i \in keep : \A j \in keep : i <= j
                 hi == CHOOSE i \in keep : \A j \in keep : j <= i
             IN  SubSeq(s, lo, hi)

\* str.title(): a cased character after a cased character is lowered, any
\* other cased character is raised
str_title(s) ==
    [i \in 1..Len(s) |->
        IF i > 1 /\ IsCased(s[i-1]) THEN LowerChar(s[i]) ELSE UpperChar(s[i])]

\* lit occurs in s starting at index i (1-based)
StartsAt(s, i, lit) ==
    /\ i >= 1
    /\ i + Len(lit) - 1 <= Len(s)
    /\ \A j \in 1..Len(lit) : s[i + j - 1] = lit[j]

\* Python: needle in hay
str_in(needle, hay) ==
    \E i \in 1..(Len(hay) - Len(needle) + 1) : StartsAt(hay, i, needle)

\* length of the longest run of characters of a class starting at index i
RunLen(s, i, class) ==
    CHOOSE k \in 0..(Len(s) - i + 1) :
        /\ \A j \in i..(i + k - 1) : s[j] \in class
        /\ (i + k > Len(s) \/ s[i + k] \notin class)

\* Optional values: None is the empty tuple, a value v is <<v>>
None == <<>>

Some(v) == <<v>>

IsNone(o) == o = <<>>

Val(o) == o[1]

(* ------------------------------------------------------------------ *)
(* Literals of the source                                              *)
(* ------------------------------------------------------------------ *)
Lit_sales == <<"s", "a", "l", "e", "s">>
Lit_orders == <<"o", "r", "d", "e", "r", "s">>
Lit_count == <<"c", "o", "u", "n", "t">>
Lit_in == <<"i", "n">>
Lit_for == <<"f", "o", "r">>
Lit_from == <<"f", "r", "o", "m">>
Lit_details == <<"d", "e", "t", "a", "i", "l", "s">>
Lit_info == <<"i", "n", "f", "o">>
Lit_status == <<"s", "t", "a", "t", "u", "s">>
Lit_of == <<"o", "f">>
Lit_order == <<"o", "r", "d", "e", "r">>
Lit_total_sales == <<"t", "o", "t", "a", "l", " ", "s", "a", "l", "e", "s">>
Lit_total_revenue == <<"t", "o", "t", "a", "l", " ", "r", "e", "v", "e", "n", "u", "e">>
Lit_how_many_orders == <<"h", "o", "w", " ", "m", "a", "n", "y", " ", "o", "r", "d", "e", "r", "s">>
Lit_total_orders == <<"t", "o", "t", "a", "l", " ", "o", "r", "d", "e", "r", "s">>
Lit_order_count == <<"o", "r", "d", "e", "r", " ", "c", "o", "u", "n", "t">>
Lit_average_amount == <<"a", "v", "e", "r", "a", "g", "e", " ", "a", "m", "o", "u", "n", "t">>
Lit_average_sales == <<"a", "v", "e", "r", "a", "g", "e", " ", "s", "a", "l", "e", "s">>
Lit_top_category == <<"t", "o", "p", " ", "c", "a", "t", "e", "g", "o", "r", "y">>
Lit_top_city == <<"t", "o", "p", " ", "c", "i", "t", "y">>
Lit_top_state == <<"t", "o", "p", " ", "s", "t", "a", "t", "e">>
Lit_status_summary == <<"s", "t", "a", "t", "u", "s", " ", "s", "u", "m", "m", "a", "r", "y">>
Lit_order_status == <<"o", "r", "d", "e", "r", " ", "s", "t", "a", "t", "u", "s">>
Lit_hello == <<"h", "e", "l", "l", "o">>
Lit_hi == <<"h", "i">>
Lit_bye == <<"b", "y", "e">>
Lit_thanks == <<"t", "h", "a", "n", "k", "s">>
Lit_count_sp == <<"c", "o", "u", "n", "t", " ">>

(* ------------------------------------------------------------------ *)
(* Field values and questions the model draws from                     *)
(* ------------------------------------------------------------------ *)
Electronics == <<"E", "l", "e", "c", "t", "r", "o", "n", "i", "c", "s">>
Books == <<"B", "o", "o", "k", "s">>
Mumbai == <<"M", "u", "m", "b", "a", "i">>
Delhi == <<"D", "e", "l", "h", "i">>
Maharashtra == <<"M", "a", "h", "a", "r", "a", "s", "h", "t", "r", "a">>
Delivered == <<"D", "e", "l", "i", "v", "e", "r", "e", "d">>
Cancelled == <<"C", "a", "n", "c", "e", "l", "l", "e", "d">>
OrderB2 == <<"B", "2">>
Order7 == <<"7">>
QEmpty == <<>>
QBlank == <<" ", " ">>
QTotalSales == <<"t", "o", "t", "a", "l", " ", "s", "a", "l", "e", "s">>
QSalesInMumbai == <<"S", "a", "l", "e", "s", " ", "i", "n", " ", "M", "u", "m", "b", "a", "i">>
QOrdersInDelhi == <<"o", "r", "d", "e", "r", "s", " ", "i", "n", " ", "d", "e", "l", "h", "i">>
QCountForMaharashtra == <<"c", "o", "u", "n", "t", " ", "f", "o", "r", " ", "m", "a", "h", "a", "r", "a", "s", "h", "t", "r", "a">>
QSalesFromBook == <<"s", "a", "l", "e", "s", " ", "f", "r", "o", "m", " ", "b", "o", "o", "k">>
QSalesInGoa == <<"s", "a", "l", "e", "s", " ", "i", "n", " ", "g", "o", "a">>
QTotalSalesForBooks == <<"t", "o", "t", "a", "l", " ", "s", "a", "l", "e", "s", " ", "f", "o", "r", " ", "b", "o", "o", "k", "s">>
QStatusOfOrderB2 == <<"s", "t", "a", "t", "u", "s", " ", "o", "f", " ", "o", "r", "d", "e", "r", " ", "B", "2">>
QDetailsForOrder7 == <<"d", "e", "t", "a", "i", "l", "s", " ", "f", "o", "r", " ", "o", "r", "d", "e", "r", " ", "7">>
QStatusOfOrder7 == <<"s", "t", "a", "t", "u", "s", " ", "o", "f", " ", "o", "r", "d", "e", "r", " ", "7">>
QInfoOfOrder9 == <<"i", "n", "f", "o", " ", "o", "f", " ", "o", "r", "d", "e", "r", " ", "9">>
QHowManyOrders == <<"h", "o", "w", " ", "m", "a", "n", "y", " ", "o", "r", "d", "e", "r", "s">>
QAverageAmount == <<"a", "v", "e", "r", "a", "g", "e", " ", "a", "m", "o", "u", "n", "t">>
QTopCategory == <<"t", "o", "p", " ", "c", "a", "t", "e", "g", "o", "r", "y">>
QTopCity == <<"t", "o", "p", " ", "c", "i", "t", "y">>
QTopState == <<"t", "o", "p", " ", "s", "t", "a", "t", "e">>
QStatusSummary == <<"s", "t", "a", "t", "u", "s", " ", "s", "u", "m", "m", "a", "r", "y">>
QCountDeliveredOrders == <<"c", "o", "u", "n", "t", " ", "d", "e", "l", "i", "v", "e", "r", "e", "d", " ", "o", "r", "d", "e", "r", "s">>
QStatusCountHi == <<"s", "t", "a", "t", "u", "s", " ", "c", "o", "u", "n", "t", " ", "h", "i">>
QHi == <<"h", "i">>
QThanks == <<"t", "h", "a", "n", "k", "s">>
QWhat == <<"w", "h", "a", "t">>


(* ------------------------------------------------------------------ *)
(* Bounds of the model                                                 *)
(* ------------------------------------------------------------------ *)
\* longest dataset the model loads
MaxRecords == 3

(* ------------------------------------------------------------------ *)
(* Numbers, dates and formatting                                       *)
(* ------------------------------------------------------------------ *)
\* order of the characters by code point (space - . / 0-9 A-Z _ a-z)
Alphabet ==
    <<" ", "-", ".", "/">> \o Digits \o UpperLetters \o <<"_">> \o LowerLetters

CharCodes ==
    [c \in {Alphabet[i] : i \in 1..Len(Alphabet)} |->
        CHOOSE i \in 1..Len(Alphabet) : Alphabet[i] = c]

CharCode(c) == CharCodes[c]

\* Python str comparison a < b: lexicographic by code point
StrLess(a, b) ==
    \E i \in 1..(Len(b)) :
        /\ \A j \in 1..(i - 1) : j <= Len(a) /\ a[j] = b[j]
        /\ i - 1 <= Len(a)
        /\ (i > Len(a) \/ CharCode(a[i]) < CharCode(b[i]))

\* strftime of a number with zero padding to two and four digits
Pad2(n) == <<Digits[(n \div 10) + 1], Digits[(n % 10) + 1]>>

Pad4(n) == Pad2(n \div 100) \o Pad2(n % 100)

\* Date.dt.to_period("M").astype(str): YYYY-MM
MonthOf(date) == Pad4(date[1]) \o <<"-">> \o Pad2(date[2])

\* strftime('%Y-%m-%d')
strftime_ymd(date) == MonthOf(date) \o <<"-">> \o Pad2(date[3])

\* the format specifications Python's format() accepts, among those the
\* source writes
FormatCurrency == ",.2f"

FormatThousands == ","

\* the text between ':' and '}' of the entity-metric f-strings
FormatEntityMetric == ",.2f if metric == 'sales' else ','"

FormatSpecOk(spec) == spec \in {FormatCurrency, FormatThousands}

\* round num/den to the nearest integer, ties to even
RoundHalfEven(num, den) ==
    LET q == num \div den
        r == num % den
    IN  IF 2 * r < den THEN q
        ELSE IF 2 * r > den THEN q + 1
        ELSE IF q % 2 = 0 THEN q ELSE q + 1

\* format(num/den, spec): the rendered number, as the integer its digits
\* spell (hundredths under ",.2f", units under ",")
Format(num, den, spec) ==
    IF spec = FormatCurrency
    THEN [spec |-> spec, digits |-> RoundHalfEven(100 * num, den)]
    ELSE [spec |-> spec, digits |-> RoundHalfEven(num, den)]

(* ------------------------------------------------------------------ *)
(* The dataset: df after loading and cleaning                          *)
(* ------------------------------------------------------------------ *)
Row(date, category, state, city, status, amount, order_id) ==
    [Date |-> date, Month |-> MonthOf(date), Category |-> category,
     ship_state |-> state, ship_city |-> city, Status |-> status,
     Amount |-> amount, Order_ID |-> order_id]

\* cleaned rows the datasets of the model are built from
RecordPool ==
    { Row(<<2022, 4, 30>>, Electronics, Maharashtra, Mumbai, Delivered, 100, OrderB2),
      Row(<<2022, 5, 1>>, Books, Delhi, Delhi, Cancelled, 50, Order7) }

Datasets == UNION {[1..n -> RecordPool] : n \in 0..MaxRecords}

\* values a multi-select dropdown can hold: None before any selection, a
\* list afterwards (an empty one when the selection is cleared)
CategoryChoices == {None, Some({}), Some({Books})}

StateChoices == {None, Some({Maharashtra})}

StatusChoices == {None, Some({Delivered})}

(* ------------------------------------------------------------------ *)
(* pandas operations used by the two callbacks                         *)
(* ------------------------------------------------------------------ *)
\* Truthy written as "is not None": an empty list then counts as a selection
Truthy_not_none(sel) == ~IsNone(sel)

\* truth value of a dropdown value: None and [] are false
Truthy(sel) == ~IsNone(sel) /\ Val(sel) # {}

\* DataFrame.empty / Series.empty
empty(rows) == rows = <<>>

\* dff[dff[col].isin(values)]
isin(rows, col, values) == SelectSeq(rows, LAMBDA r : r[col] \in values)

\* dff[dff[col] == value]
eq_rows(rows, col, value) == SelectSeq(rows, LAMBDA r : r[col] = value)

\* dff[col].unique() as a set
unique(rows, col) == {rows[i][col] : i \in 1..Len(rows)}

RECURSIVE sum_amount(_)
\* dff["Amount"].sum()
sum_amount(rows) ==
    IF rows = <<>> THEN 0 ELSE rows[1].Amount + sum_amount(Tail(rows))

\* the index of a groupby result: the keys in sorted order
sorted_keys(keys) ==
    [i \in 1..Cardinality(keys) |->
        CHOOSE k \in keys : Cardinality({x \in keys : StrLess(x, k)}) = i - 1]

\* dff.groupby(col)["Amount"].sum(): one entry per key, in sorted key order
groupby_sum(rows, col) ==
    LET ks == sorted_keys(unique(rows, col))
    IN  [i \in 1..Len(ks) |->
            [key |-> ks[i], val |-> sum_amount(eq_rows(rows, col, ks[i]))]]

\* Series.max()
series_max(series) ==
    LET i == CHOOSE i \in 1..Len(series) :
                \A j \in 1..Len(series) : series[j].val <= series[i].val
    IN  series[i].val

\* idxmax returning the label of the last entry holding the maximum
idxmax_last(series) ==
    LET i == CHOOSE i \in 1..Len(series) :
                /\ \A j \in 1..Len(series) : series[j].val <= series[i].val
                /\ \A j \in (i + 1)..Len(series) : series[j].val < series[i].val
    IN  series[i].key

\* Series.idxmax(): the label of the first entry holding the maximum
idxmax(series) ==
    LET i == CHOOSE i \in 1..Len(series) :
                /\ \A j \in 1..Len(series) : series[j].val <= series[i].val
                /\ \A j \in 1..(i - 1) : series[j].val < series[i].val
    IN  series[i].key

\* Series.nlargest(n), keep='first': the positions of the n largest entries,
\* an entry going before a later entry of the same value
nlargest_positions(series, n) ==
    {i \in 1..Len(series) :
        Cardinality({j \in 1..Len(series) :
            \/ series[j].val > series[i].val
            \/ (series[j].val = series[i].val /\ j < i)}) < n}

\* the arrangements of a set of entries in ascending order of value: what
\* Series.sort_values() (quicksort, not stable) can return
ascending_orders(entries) ==
    {s \in [1..Cardinality(entries) -> entries] :
        /\ \A i, j \in 1..Cardinality(entries) : i # j => s[i] # s[j]
        /\ \A i, j \in 1..Cardinality(entries) : i < j => s[i].val <= s[j].val}

\* ...and in descending order of value
descending_orders(entries) ==
    {s \in [1..Cardinality(entries) -> entries] :
        /\ \A i, j \in 1..Cardinality(entries) : i # j => s[i] # s[j]
        /\ \A i, j \in 1..Cardinality(entries) : i < j => s[i].val >= s[j].val}

\* dff.groupby(col)["Amount"].sum().nlargest(n).sort_values()
top_n_outcomes(rows, col, n) ==
    LET gs == groupby_sum(rows, col)
    IN  ascending_orders({gs[i] : i \in nlargest_positions(gs, n)})

\* the keys of a column in the order of their first appearance
first_appearance(rows, col) ==
    LET first(k) == CHOOSE i \in 1..Len(rows) :
                        rows[i][col] = k /\ \A j \in 1..(i - 1) : rows[j][col] # k
        keys == unique(rows, col)
    IN  [i \in 1..Cardinality(keys) |->
            CHOOSE k \in keys :
                Cardinality({x \in keys : first(x) < first(k)}) = i - 1]

\* value_counts(sort=False): the counts in order of first appearance
value_counts_unsorted(rows, col) ==
    LET ks == first_appearance(rows, col)
    IN  {[i \in 1..Len(ks) |-> [key |-> ks[i], val |-> Len(eq_rows(rows, col, ks[i]))]]}

\* dff[col].value_counts(): every value with its number of rows, in
\* descending order of count
value_counts_outcomes(rows, col) ==
    descending_orders({[key |-> k, val |-> Len(eq_rows(rows, col, k))] :
                        k \in unique(rows, col)})

(* ------------------------------------------------------------------ *)
(* State                                                               *)
(* ------------------------------------------------------------------ *)
VARIABLES
    df,               \* the loaded dataset (module-level df)
    category_filter,  \* value of the dropdown "category-filter"
    state_filter,     \* value of the dropdown "state-filter"
    status_filter,    \* value of the dropdown "status-filter"
    user_input,       \* value of the textarea "user-input"
    dash_dff,         \* dff of the last run of update_dashboard
    sales_trend,      \* figure "sales-trend"
    top_categories,   \* figure "top-categories"
    top_cities,       \* figure "top-cities"
    order_status,     \* figure "order-status"
    kpi_container,    \* children of "kpi-container"
    chat_dff,         \* dff of the last run of analyze_data_view, if it built one
    chat_response     \* children of "chat-response"

vars ==
    <<df, category_filter, state_filter, status_filter, user_input, dash_dff,
      sales_trend, top_categories, top_cities, order_status, kpi_container,
      chat_dff, chat_response>>

(* ------------------------------------------------------------------ *)
(* update_dashboard                                                    *)
(* ------------------------------------------------------------------ *)
\* the n of nlargest(n) in the two bar charts
ChartTopN == 10

\* the filtered dataframe of update_dashboard
update_dashboard_dff(d, selected_categories, selected_states, selected_statuses) ==
    LET d1 == IF Truthy(selected_categories)
              THEN isin(d, "Category", Val(selected_categories)) ELSE d
        d2 == IF Truthy(selected_states)
              THEN isin(d1, "ship_state", Val(selected_states)) ELSE d1
        d3 == IF Truthy(selected_statuses)
              THEN isin(d2, "Status", Val(selected_statuses)) ELSE d2
    IN  d3

create_empty_figure(title) == [kind |-> "empty", title |-> title, data |-> <<>>]

\* kpi_cards with the average taken by floor division (//)
kpi_cards_floor_average(dff) ==
    IF empty(dff)
    THEN [sales |-> [spec |-> FormatCurrency, digits |-> 0],
          orders |-> [spec |-> FormatThousands, digits |-> 0],
          avg_value |-> [spec |-> FormatCurrency, digits |-> 0]]
    ELSE LET total_sales == sum_amount(dff)
             total_orders == Len(dff)
         IN  [sales |-> Format(total_sales, 1, FormatCurrency),
              orders |-> Format(total_orders, 1, FormatThousands),
              avg_value |-> IF total_orders > 0
                            THEN Format(total_sales \div total_orders, 1, FormatCurrency)
                            ELSE Format(0, 1, FormatCurrency)]

\* the three KPI cards: total sales, total orders, average order value
kpi_cards(dff) ==
    IF empty(dff)
    THEN \* the literal texts "₹0.00", "0", "₹0.00"
         [sales |-> [spec |-> FormatCurrency, digits |-> 0],
          orders |-> [spec |-> FormatThousands, digits |-> 0],
          avg_value |-> [spec |-> FormatCurrency, digits |-> 0]]
    ELSE LET total_sales == sum_amount(dff)
             total_orders == Len(dff)
         IN  [sales |-> Format(total_sales, 1, FormatCurrency),
              orders |-> Format(total_orders, 1, FormatThousands),
              avg_value |-> IF total_orders > 0
                            THEN Format(total_sales, total_orders, FormatCurrency)
                            ELSE Format(0, 1, FormatCurrency)]

\* every result update_dashboard can return for a dataset and the three
\* dropdown values (the order of equal bars and slices is the sort's choice)
update_dashboard(d, selected_categories, selected_states, selected_statuses) ==
    LET dff == update_dashboard_dff(d, selected_categories, selected_states,
                                    selected_statuses)
    IN  IF empty(dff)
        THEN LET empty_fig == create_empty_figure("No data for current filters")
             IN  {[dff |-> dff, fig1 |-> empty_fig, fig2 |-> empty_fig,
                   fig3 |-> empty_fig, fig4 |-> empty_fig, kpis |-> kpi_cards(dff)]}
        ELSE {[dff |-> dff,
               fig1 |-> [kind |-> "line", title |-> "Monthly Sales Trend",
                         data |-> groupby_sum(dff, "Month")],
               fig2 |-> [kind |-> "bar", title |-> "Top 10 Categories by Sales",
                         data |-> top_cat],
               fig3 |-> [kind |-> "bar", title |-> "Top 10 Cities by Sales",
                         data |-> top_city],
               fig4 |-> [kind |-> "pie", title |-> "Order Status Distribution",
                         data |-> status_counts],
               kpis |-> kpi_cards(dff)] :
                 top_cat \in top_n_outcomes(dff, "Category", ChartTopN),
                 top_city \in top_n_outcomes(dff, "ship_city", ChartTopN),
                 status_counts \in value_counts_outcomes(dff, "Status")}

\* the callback writes its five outputs
DashboardOutputs(out) ==
    /\ dash_dff' = out.dff
    /\ sales_trend' = out.fig1
    /\ top_categories' = out.fig2
    /\ top_cities' = out.fig3
    /\ order_status' = out.fig4
    /\ kpi_container' = out.kpis

(* ------------------------------------------------------------------ *)
(* The regular expressions of analyze_data_view                        *)
(* ------------------------------------------------------------------ *)
\* re.search: of the matches found at each index, the leftmost
LeftmostMatch(matches) ==
    LET hits == {i \in DOMAIN matches : ~IsNone(matches[i])}
    IN  IF hits = {} THEN None
        ELSE matches[CHOOSE i \in hits : \A j \in hits : i <= j]

\* the first of the alternatives that occurs at index i, if any
AlternativeAt(msg, i, alternatives) ==
    LET hits == {a \in 1..Len(alternatives) : StartsAt(msg, i, alternatives[a])}
    IN  IF hits = {} THEN None
        ELSE Some(alternatives[CHOOSE a \in hits : \A b \in hits : a <= b])

\* [\w\s.-]
EntityClass == WordChars \cup SpaceChars \cup {".", "-"}

\* [\w\-/]
OrderIdClass == WordChars \cup {"-", "/"}

\* [\w\s]
StatusQueryClass == WordChars \cup SpaceChars

\* (sales|orders|count)\s+(?:in|for|from)\s+([\w\s.-]+) matched at index i
match_specific_at(msg, i) ==
    LET metric == AlternativeAt(msg, i, <<Lit_sales, Lit_orders, Lit_count>>)
    IN  IF IsNone(metric) THEN None
        ELSE
        LET j  == i + Len(Val(metric))
            w1 == RunLen(msg, j, SpaceChars)
            k  == j + w1
            prep == AlternativeAt(msg, k, <<Lit_in, Lit_for, Lit_from>>)
        IN  IF w1 = 0 \/ IsNone(prep) THEN None
            ELSE
            LET l   == k + Len(Val(prep))
                w2  == RunLen(msg, l, SpaceChars)
                g   == l + w2
                run == RunLen(msg, g, EntityClass)
            IN  IF w2 = 0 THEN None
                ELSE IF run > 0
                THEN Some([metric |-> Val(metric), entity |-> SubSeq(msg, g, g + run - 1)])
                \* \s+ gives back its last blank, which the group then takes
                ELSE IF w2 > 1
                THEN Some([metric |-> Val(metric), entity |-> SubSeq(msg, g - 1, g - 1)])
                ELSE None

match_specific(msg) ==
    LeftmostMatch([i \in 1..Len(msg) |-> match_specific_at(msg, i)])

\* (details|info|status)\s+(?:for|of)\s+order\s+([\w\-/]+) matched at index i
match_order_at(msg, i) ==
    LET action == AlternativeAt(msg, i, <<Lit_details, Lit_info, Lit_status>>)
    IN  IF IsNone(action) THEN None
        ELSE
        LET j  == i + Len(Val(action))
            w1 == RunLen(msg, j, SpaceChars)
            k  == j + w1
            prep == AlternativeAt(msg, k, <<Lit_for, Lit_of>>)
        IN  IF w1 = 0 \/ IsNone(prep) THEN None
            ELSE
            LET l  == k + Len(Val(prep))
                w2 == RunLen(msg, l, SpaceChars)
                o  == l + w2
            IN  IF w2 = 0 \/ ~StartsAt(msg, o, Lit_order) THEN None
                ELSE
                LET e   == o + Len(Lit_order)
                    w3  == RunLen(msg, e, SpaceChars)
                    g   == e + w3
                    run == RunLen(msg, g, OrderIdClass)
                IN  IF w3 = 0 \/ run = 0 THEN None
                    ELSE Some([action |-> Val(action),
                               order_id |-> SubSeq(msg, g, g + run - 1),
                               start |-> g])

match_order(msg) ==
    LeftmostMatch([i \in 1..Len(msg) |-> match_order_at(msg, i)])

\* count ([\w\s]+?)\s*(?:orders|status) matched at index i: the group is the
\* shortest that lets the rest of the pattern match
match_status_count_at(msg, i) ==
    IF ~StartsAt(msg, i, Lit_count_sp) THEN None
    ELSE
    LET g == i + Len(Lit_count_sp)
        lens == {k \in 1..(Len(msg) - g + 1) :
                    /\ \A j \in g..(g + k - 1) : msg[j] \in StatusQueryClass
                    /\ \E w \in 0..RunLen(msg, g + k, SpaceChars) :
                        \/ StartsAt(msg, g + k + w, Lit_orders)
                        \/ StartsAt(msg, g + k + w, Lit_status)}
    IN  IF lens = {} THEN None
        ELSE Some(SubSeq(msg, g, g + (CHOOSE k \in lens : \A m \in lens : k <= m) - 1))

match_status_count(msg) ==
    LeftmostMatch([i \in 1..Len(msg) |-> match_status_count_at(msg, i)])

\* Series.str.contains(pat, case=False) on one value: a regular-expression
\* search, where '.' in pat stands for any character
str_contains(text, pat) ==
    \E i \in 1..(Len(text) - Len(pat) + 1) :
        \A j \in 1..Len(pat) :
            pat[j] = "." \/ LowerChar(text[i + j - 1]) = LowerChar(pat[j])

\* dff[dff[col].str.contains(pat, case=False, na=False)]
contains_rows(rows, col, pat) == SelectSeq(rows, LAMBDA r : str_contains(r[col], pat))

(* ------------------------------------------------------------------ *)
(* analyze_data_view                                                   *)
(* ------------------------------------------------------------------ *)
NoNumber == [spec |-> "", digits |-> 0]

\* the text of a reply: which message of the source it is, the filter
\* description it names, and the values substituted into it
Response(kind, desc, subject, number, lines) ==
    [kind |-> kind, desc |-> desc, subject |-> subject, number |-> number,
     lines |-> lines]

Line(label, text, number) == [label |-> label, text |-> text, number |-> number]

\* result of the try block: a response, or an exception raised
Returned(response) == [raised |-> FALSE, response |-> response]

Raised == [raised |-> TRUE, response |-> Response("", "", <<>>, NoNumber, <<>>)]

\* analyze_data_view_dff with the state filter applied to df instead of to
\* the category-filtered frame
analyze_data_view_dff_restart(d, selected_categories, selected_states, selected_statuses) ==
    IF Truthy(selected_categories) \/ Truthy(selected_states) \/ Truthy(selected_statuses)
    THEN LET d1 == IF Truthy(selected_categories)
                   THEN isin(d, "Category", Val(selected_categories)) ELSE d
             d2 == IF Truthy(selected_states)
                   THEN isin(d, "ship_state", Val(selected_states)) ELSE d1
             d3 == IF Truthy(selected_statuses)
                   THEN isin(d2, "Status", Val(selected_statuses)) ELSE d2
         IN  d3
    ELSE d

\* the filtered dataframe of analyze_data_view
analyze_data_view_dff(d, selected_categories, selected_states, selected_statuses) ==
    IF Truthy(selected_categories) \/ Truthy(selected_states) \/ Truthy(selected_statuses)
    THEN LET d1 == IF Truthy(selected_categories)
                   THEN isin(d, "Category", Val(selected_categories)) ELSE d
             d2 == IF Truthy(selected_states)
                   THEN isin(d1, "ship_state", Val(selected_states)) ELSE d1
             d3 == IF Truthy(selected_statuses)
                   THEN isin(d2, "Status", Val(selected_statuses)) ELSE d2
         IN  d3
    ELSE d

filter_description(selected_categories, selected_states, selected_statuses) ==
    IF Truthy(selected_categories) \/ Truthy(selected_states) \/ Truthy(selected_statuses)
    THEN "current filtered view"
    ELSE "overall data"

\* the f-string of an entity answer: format() raises ValueError on a
\* specification it does not accept
entity_metric_answer(kind, desc, metric, display, specific_df) ==
    LET metric_val == IF metric = Lit_sales THEN sum_amount(specific_df)
                      ELSE Len(specific_df)
    IN  IF FormatSpecOk(FormatEntityMetric)
        THEN {Returned(Response(kind, desc, display,
                                Format(metric_val, 1, FormatEntityMetric),
                                <<Line("metric", str_title(metric), NoNumber)>>))}
        ELSE {Raised}

\* branch "if match_specific"
answer_specific(dff, desc, m) ==
    LET metric == m.metric
        entity == str_strip(m.entity)
        entity_title == str_title(entity)
    IN  IF entity_title \in unique(dff, "ship_city")
        THEN entity_metric_answer("city_metric", desc, metric, entity_title,
                                  eq_rows(dff, "ship_city", entity_title))
        ELSE IF entity_title \in unique(dff, "ship_state")
        THEN entity_metric_answer("state_metric", desc, metric, entity_title,
                                  eq_rows(dff, "ship_state", entity_title))
        ELSE IF contains_rows(dff, "Category", entity) # <<>>
        THEN LET specific_df == contains_rows(dff, "Category", entity)
                 matched_cats == unique(specific_df, "Category")
                 cat_name_display ==
                     IF Cardinality(matched_cats) = 1
                     THEN specific_df[1].Category
                     ELSE entity
             IN  entity_metric_answer("category_metric", desc, metric,
                                      cat_name_display, specific_df)
        ELSE {Returned(Response("entity_not_found", desc, entity, NoNumber, <<>>))}

\* branch "elif match_order"
answer_order(d, dff, desc, m) ==
    LET action == m.action
        order_id == m.order_id
        order_df == eq_rows(dff, "Order_ID", order_id)
    IN  IF ~empty(order_df)
        THEN LET order_data == order_df[1]
             IN  IF action = Lit_status
                 THEN {Returned(Response("order_status", desc, order_id, NoNumber,
                           <<Line("Status", order_data.Status, NoNumber)>>))}
                 ELSE {Returned(Response("order_details", desc, order_id, NoNumber,
                           << Line("Date", strftime_ymd(order_data.Date), NoNumber),
                              Line("Status", order_data.Status, NoNumber),
                              Line("Amount", <<>>,
                                   Format(order_data.Amount, 1, FormatCurrency)),
                              Line("Category", order_data.Category, NoNumber),
                              Line("Ship to City", order_data.ship_city, NoNumber),
                              Line("Ship to State", order_data.ship_state, NoNumber) >>))}
        ELSE IF ~empty(eq_rows(d, "Order_ID", order_id))
        THEN {Returned(Response("order_excluded", desc, order_id, NoNumber, <<>>))}
        ELSE {Returned(Response("order_not_found", "", order_id, NoNumber, <<>>))}

\* branches "top category", "top city", "top state"
answer_top(kind, dff, desc, col) ==
    LET sums == groupby_sum(dff, col)
    IN  IF ~empty(dff)
        THEN {Returned(Response(kind, desc, idxmax(sums),
                                Format(series_max(sums), 1, FormatCurrency), <<>>))}
        ELSE {Returned(Response("cannot_determine_top", desc, <<>>, NoNumber, <<>>))}

\* branch "status summary" / "order status": one line per entry of value_counts
answer_status_summary(dff, desc) ==
    IF ~empty(dff)
    THEN {Returned(Response("status_summary", desc, <<>>, NoNumber,
            [i \in 1..Len(status_counts) |->
                Line("status", status_counts[i].key,
                     Format(status_counts[i].val, 1, FormatThousands))])) :
          status_counts \in value_counts_outcomes(dff, "Status")}
    ELSE {Returned(Response("no_status_info", desc, <<>>, NoNumber, <<>>))}

\* branch "count ... orders|status"
answer_status_count(dff, desc, default) ==
    LET m == match_status_count(default.msg)
    IN  IF ~IsNone(m)
        THEN LET status_query == str_strip(Val(m))
                 count == Len(contains_rows(dff, "Status", status_query))
             IN  {Returned(Response("status_count", desc, status_query,
                                    Format(count, 1, FormatThousands), <<>>))}
        ELSE {Returned(default.response)}

\* the try block: the chain of if / elif over msg, first test that holds wins
try_block(d, dff, desc, msg) ==
    LET default == Response("default", desc, <<>>, NoNumber, <<>>)
        specific == match_specific(msg)
        order == match_order(msg)
    IN  IF ~IsNone(specific) THEN answer_specific(dff, desc, Val(specific))
        ELSE IF ~IsNone(order) THEN answer_order(d, dff, desc, Val(order))
        ELSE IF str_in(Lit_total_sales, msg) \/ str_in(Lit_total_revenue, msg)
        THEN {Returned(Response("total_sales", desc, <<>>,
                                Format(sum_amount(dff), 1, FormatCurrency), <<>>))}
        ELSE IF \/ str_in(Lit_how_many_orders, msg)
                \/ str_in(Lit_total_orders, msg)
                \/ str_in(Lit_order_count, msg)
        THEN {Returned(Response("order_count", desc, <<>>,
                                Format(Len(dff), 1, FormatThousands), <<>>))}
        ELSE IF str_in(Lit_average_amount, msg) \/ str_in(Lit_average_sales, msg)
        THEN IF Len(dff) > 0
             THEN {Returned(Response("average", desc, <<>>,
                                     Format(sum_amount(dff), Len(dff), FormatCurrency),
                                     <<>>))}
             ELSE {Returned(Response("cannot_average", desc, <<>>, NoNumber, <<>>))}
        ELSE IF str_in(Lit_top_category, msg)
        THEN answer_top("top_category", dff, desc, "Category")
        ELSE IF str_in(Lit_top_city, msg)
        THEN answer_top("top_city", dff, desc, "ship_city")
        ELSE IF str_in(Lit_top_state, msg)
        THEN answer_top("top_state", dff, desc, "ship_state")
        ELSE IF str_in(Lit_status_summary, msg) \/ str_in(Lit_order_status, msg)
        THEN answer_status_summary(dff, desc)
        ELSE IF /\ str_in(Lit_count, msg)
                /\ (str_in(Lit_orders, msg) \/ str_in(Lit_status, msg))
        THEN answer_status_count(dff, desc, [msg |-> msg, response |-> default])
        ELSE IF str_in(Lit_hello, msg) \/ str_in(Lit_hi, msg)
        THEN {Returned(Response("greeting", desc, <<>>, NoNumber, <<>>))}
        ELSE IF str_in(Lit_bye, msg) \/ str_in(Lit_thanks, msg)
        THEN {Returned(Response("farewell", "", <<>>, NoNumber, <<>>))}
        ELSE {Returned(default)}

\* an except clause that lets the exception through
except_clause_reraise(outcome, desc) == outcome

\* "except Exception": an exception becomes the analysis-failed reply
except_clause(outcome, desc) ==
    IF outcome.raised
    THEN Returned(Response("analysis_failed", desc, <<>>, NoNumber, <<>>))
    ELSE outcome

\* analyze_data_view without the check for an empty filtered dataframe
analyze_data_view_unchecked(d, user_message, selected_categories, selected_states, selected_statuses) ==
    IF IsNone(user_message) \/ Val(user_message) = <<>>
    THEN {[dff |-> None,
           result |-> Returned(Response("prompt", "", <<>>, NoNumber, <<>>))]}
    ELSE
    LET dff == analyze_data_view_dff(d, selected_categories, selected_states,
                                     selected_statuses)
        filter_desc == filter_description(selected_categories, selected_states,
                                          selected_statuses)
        msg == str_strip(str_lower(Val(user_message)))
    IN  {[dff |-> Some(dff), result |-> except_clause(outcome, filter_desc)] :
            outcome \in try_block(d, dff, filter_desc, msg)}

\* every result analyze_data_view can produce: the dataframe it built (None
\* when it returned before building one) and either the reply or an
\* exception leaving the callback
analyze_data_view(d, user_message, selected_categories, selected_states, selected_statuses) ==
    IF IsNone(user_message) \/ Val(user_message) = <<>>
    THEN {[dff |-> None,
           result |-> Returned(Response("prompt", "", <<>>, NoNumber, <<>>))]}
    ELSE
    LET dff == analyze_data_view_dff(d, selected_categories, selected_states,
                                     selected_statuses)
        filter_desc == filter_description(selected_categories, selected_states,
                                          selected_statuses)
    IN  IF empty(dff)
        THEN {[dff |-> Some(dff),
               result |-> Returned(Response("no_data", filter_desc, <<>>, NoNumber, <<>>))]}
        ELSE LET msg == str_strip(str_lower(Val(user_message)))
             IN  {[dff |-> Some(dff), result |-> except_clause(outcome, filter_desc)] :
                    outcome \in try_block(d, dff, filter_desc, msg)}

(* ------------------------------------------------------------------ *)
(* Initial state and filter changes                                    *)
(* ------------------------------------------------------------------ *)
\* the questions the user types
Questions ==
    { None, Some(QEmpty), Some(QBlank), Some(QTotalSales), Some(QSalesInMumbai),
      Some(QOrdersInDelhi), Some(QCountForMaharashtra), Some(QSalesFromBook),
      Some(QSalesInGoa), Some(QTotalSalesForBooks), Some(QStatusOfOrderB2),
      Some(QDetailsForOrder7), Some(QStatusOfOrder7), Some(QInfoOfOrder9),
      Some(QHowManyOrders), Some(QAverageAmount), Some(QTopCategory),
      Some(QTopCity), Some(QTopState), Some(QStatusSummary),
      Some(QCountDeliveredOrders), Some(QStatusCountHi), Some(QHi),
      Some(QThanks), Some(QWhat) }

\* The two callbacks are functions of the dataset and their arguments; their
\* results are tabulated once over the inputs the model draws from.
\* the function f with its values computed
Tabulate(f) == f @@ <<>>

dashboard_results ==
    Tabulate([d \in Datasets |-> Tabulate([c \in CategoryChoices |->
        Tabulate([s \in StateChoices |-> Tabulate([st \in StatusChoices |->
            update_dashboard(d, c, s, st)])])])])

chat_results ==
    Tabulate([d \in Datasets |-> Tabulate([q \in Questions |->
        Tabulate([c \in CategoryChoices |-> Tabulate([s \in StateChoices |->
            Tabulate([st \in StatusChoices |->
                analyze_data_view(d, q, c, s, st)])])])])])

\* the page as first served: no selection, no question, the dashboard
\* callback already run once by Dash on load
Init ==
    /\ df \in Datasets
    /\ category_filter = None
    /\ state_filter = None
    /\ status_filter = None
    /\ user_input = None
    /\ chat_dff = None
    /\ chat_response = Returned(Response("initial", "", <<>>, NoNumber, <<>>))
    /\ \E out \in dashboard_results[df][None][None][None] :
        /\ dash_dff = out.dff
        /\ sales_trend = out.fig1
        /\ top_categories = out.fig2
        /\ top_cities = out.fig3
        /\ order_status = out.fig4
        /\ kpi_container = out.kpis

\* the user changes the category dropdown; Dash runs update_dashboard
SelectCategories(v) ==
    /\ v # category_filter
    /\ category_filter' = v
    /\ \E out \in dashboard_results[df][v][state_filter][status_filter] :
        DashboardOutputs(out)
    /\ UNCHANGED <<df, state_filter, status_filter, user_input, chat_dff, chat_response>>

\* the user changes the state dropdown; Dash runs update_dashboard
SelectStates(v) ==
    /\ v # state_filter
    /\ state_filter' = v
    /\ \E out \in dashboard_results[df][category_filter][v][status_filter] :
        DashboardOutputs(out)
    /\ UNCHANGED <<df, category_filter, status_filter, user_input, chat_dff, chat_response>>

\* the user changes the status dropdown; Dash runs update_dashboard
SelectStatuses(v) ==
    /\ v # status_filter
    /\ status_filter' = v
    /\ \E out \in dashboard_results[df][category_filter][state_filter][v] :
        DashboardOutputs(out)
    /\ UNCHANGED <<df, category_filter, state_filter, user_input, chat_dff, chat_response>>

\* Ask with the filters applied to the module-level df itself instead of to
\* a copy of it
Ask_narrowing_df(q) ==
    /\ user_input' = q
    /\ \E out \in chat_results[df][q][category_filter][state_filter][status_filter] :
        /\ chat_dff' = out.dff
        /\ chat_response' = out.result
        /\ df' = IF IsNone(out.dff) THEN df ELSE Val(out.dff)
    /\ UNCHANGED <<category_filter, state_filter, status_filter, dash_dff,
                   sales_trend, top_categories, top_cities, order_status,
                   kpi_container>>

\* the user leaves q in the textarea and presses "Ask"; Dash runs
\* analyze_data_view with the current dropdown values
Ask(q) ==
    /\ user_input' = q
    /\ \E out \in chat_results[df][q][category_filter][state_filter][status_filter] :
        /\ chat_dff' = out.dff
        /\ chat_response' = out.result
    /\ UNCHANGED <<df, category_filter, state_filter, status_filter, dash_dff,
                   sales_trend, top_categories, top_cities, order_status,
                   kpi_container>>

Next ==
    \/ \E q \in Questions : Ask(q)
    \/ \E v \in CategoryChoices : SelectCategories(v)
    \/ \E v \in StateChoices : SelectStates(v)
    \/ \E v \in StatusChoices : SelectStatuses(v)

Spec == Init /\ [][Next]_vars

(* ------------------------------------------------------------------ *)
(* Properties                                                          *)
(* ------------------------------------------------------------------ *)
filters == <<category_filter, state_filter, status_filter>>

\* analyze_data_view has run at least once
Asked == chat_response.response.kind # "initial"

\* the reply on the page
reply == chat_response.response

\* the filtered view the last question was answered over
view == Val(chat_dff)

\* a selection that restricts nothing: absent or empty
Unrestricted(sel) == IsNone(sel) \/ Val(sel) = {}

\* the filtered view the specification defines for a dataset and a FilterSpec
SpecifiedView(d, categories, states, statuses) ==
    SelectSeq(d, LAMBDA r :
        /\ (Unrestricted(categories) \/ r.Category \in Val(categories))
        /\ (Unrestricted(states) \/ r.ship_state \in Val(states))
        /\ (Unrestricted(statuses) \/ r.Status \in Val(statuses)))

\* v picks rows of d at increasing positions
IsSubsequence(v, d) ==
    \E f \in [1..Len(v) -> 1..Len(d)] :
        /\ \A i, j \in 1..Len(v) : i < j => f[i] < f[j]
        /\ \A i \in 1..Len(v) : v[i] = d[f[i]]

\* C1: whenever analyze_data_view builds its filtered dataframe, it is, row
\* for row and in the same order, the dataframe update_dashboard built for
\* the same dropdown values (the dashboard's dff is that of the current
\* dropdown values, which a question leaves unchanged).
C1_SameFilteredView ==
    [][(filters' = filters /\ ~IsNone(chat_dff')) => chat_dff' = Some(dash_dff)]_vars

\* C1 witness: a question answered over a view that a category selection
\* narrowed to some but not all rows, equal to the dashboard's view
C1_Witness ==
    /\ Asked
    /\ Truthy(category_filter)
    /\ chat_dff = Some(dash_dff)
    /\ dash_dff # <<>>
    /\ Len(dash_dff) < Len(df)

\* C2: for every FilterSpec the model draws, the dataframe either callback
\* derives holds exactly the rows the inclusion rule admits (a dimension
\* that is absent or empty admits every row), is a subsequence of df in df's
\* order, and is df itself under the empty FilterSpec; the dashboard's view
\* is always the one of the current FilterSpec, whatever was selected before.
C2_FilterSemantics ==
    /\ \A c \in CategoryChoices, s \in StateChoices, st \in StatusChoices :
        LET v == update_dashboard_dff(df, c, s, st)
            w == analyze_data_view_dff(df, c, s, st)
        IN  /\ v = SpecifiedView(df, c, s, st)
            /\ w = SpecifiedView(df, c, s, st)
            /\ IsSubsequence(v, df)
            /\ IsSubsequence(w, df)
            /\ (Unrestricted(c) /\ Unrestricted(s) /\ Unrestricted(st)
                    => v = df /\ w = df)
    /\ dash_dff = SpecifiedView(df, category_filter, state_filter, status_filter)
    /\ IsSubsequence(dash_dff, df)

\* C2 witness: an empty category list next to a status selection that keeps
\* some rows and drops others
C2_Witness ==
    /\ category_filter = Some({})
    /\ Truthy(status_filter)
    /\ dash_dff # <<>>
    /\ Len(dash_dff) < Len(df)
    /\ chat_dff = Some(dash_dff)

\* the question as typed, without surrounding blanks, and as the matcher
\* reads it
typed == str_strip(Val(user_input))

lowered == str_lower(typed)

\* a question was answered over a non-empty filtered view
AnsweredOverView == Asked /\ ~IsNone(user_input) /\ ~IsNone(chat_dff) /\ view # <<>>

\* C3 (as stated): over a non-empty view, for a question matching the
\* order-lookup pattern, with the order id as the question gives it: if a
\* row of the view has exactly that id the reply is the status, or the
\* detail listing, of the first such row; otherwise, if a row of df has it,
\* the reply is the "exists but is not in" message; otherwise "not found".
C3_OrderLookup ==
    (AnsweredOverView /\ ~IsNone(match_order(lowered))) =>
        LET m == Val(match_order(lowered))
            order_id == SubSeq(typed, m.start, m.start + Len(m.order_id) - 1)
            in_view == eq_rows(view, "Order_ID", order_id)
        IN  IF in_view # <<>>
            THEN /\ reply.kind = IF m.action = Lit_status THEN "order_status"
                                 ELSE "order_details"
                 /\ \E i \in 1..Len(reply.lines) :
                        /\ reply.lines[i].label = "Status"
                        /\ reply.lines[i].text = in_view[1].Status
            ELSE IF eq_rows(df, "Order_ID", order_id) # <<>>
            THEN reply.kind = "order_excluded"
            ELSE reply.kind = "order_not_found"

\* C4 (as stated): over a non-empty view, for a question matching the
\* entity-metric pattern, the entity is resolved as exact city (title-cased),
\* else exact state, else category substring, and the reply reports the sum
\* of Amount as currency for "sales" and the row count otherwise.
C4_EntityMetric ==
    (AnsweredOverView /\ ~IsNone(match_specific(lowered))) =>
        LET m == Val(match_specific(lowered))
            entity == str_strip(m.entity)
            by_city == eq_rows(view, "ship_city", str_title(entity))
            by_state == eq_rows(view, "ship_state", str_title(entity))
            by_category == contains_rows(view, "Category", entity)
            rows == IF by_city # <<>> THEN by_city
                    ELSE IF by_state # <<>> THEN by_state ELSE by_category
        IN  IF rows = <<>> THEN reply.kind = "entity_not_found"
            ELSE /\ reply.kind = IF by_city # <<>> THEN "city_metric"
                                 ELSE IF by_state # <<>> THEN "state_metric"
                                 ELSE "category_metric"
                 /\ reply.number = IF m.metric = Lit_sales
                                   THEN Format(sum_amount(rows), 1, FormatCurrency)
                                   ELSE Format(Len(rows), 1, FormatThousands)

\* the rules of the matcher in their order, as tests on the lowered question
RuleMatches(rule, msg) ==
    CASE rule = 1 -> ~IsNone(match_specific(msg))
      [] rule = 2 -> ~IsNone(match_order(msg))
      [] rule = 3 -> str_in(Lit_total_sales, msg) \/ str_in(Lit_total_revenue, msg)
      [] rule = 4 -> \/ str_in(Lit_how_many_orders, msg)
                     \/ str_in(Lit_total_orders, msg)
                     \/ str_in(Lit_order_count, msg)
      [] rule = 5 -> str_in(Lit_average_amount, msg) \/ str_in(Lit_average_sales, msg)
      [] rule = 6 -> str_in(Lit_top_category, msg)
      [] rule = 7 -> str_in(Lit_top_city, msg)
      [] rule = 8 -> str_in(Lit_top_state, msg)
      [] rule = 9 -> str_in(Lit_status_summary, msg) \/ str_in(Lit_order_status, msg)
      [] rule = 10 -> ~IsNone(match_status_count(msg))
      [] rule = 11 -> str_in(Lit_hello, msg) \/ str_in(Lit_hi, msg)
      [] rule = 12 -> str_in(Lit_bye, msg) \/ str_in(Lit_thanks, msg)

\* the replies a rule gives (rule 0: no rule, the default reply)
RuleReplies(rule) ==
    CASE rule = 0 -> {"default"}
      [] rule = 1 -> {"city_metric", "state_metric", "category_metric", "entity_not_found"}
      [] rule = 2 -> {"order_status", "order_details", "order_excluded", "order_not_found"}
      [] rule = 3 -> {"total_sales"}
      [] rule = 4 -> {"order_count"}
      [] rule = 5 -> {"average"}
      [] rule = 6 -> {"top_category"}
      [] rule = 7 -> {"top_city"}
      [] rule = 8 -> {"top_state"}
      [] rule = 9 -> {"status_summary"}
      [] rule = 10 -> {"status_count"}
      [] rule = 11 -> {"greeting"}
      [] rule = 12 -> {"farewell"}

Rules == 1..12

FirstRule(msg) ==
    IF \E r \in Rules : RuleMatches(r, msg)
    THEN CHOOSE r \in Rules :
            RuleMatches(r, msg) /\ \A e \in 1..(r - 1) : ~RuleMatches(e, msg)
    ELSE 0

\* C5 (as stated): over a non-empty view a non-blank question is answered by
\* the first rule, in the fixed order, that matches it, and by the default
\* reply only when no rule matches.
C5_FirstRuleAnswers ==
    (AnsweredOverView /\ lowered # <<>>) => reply.kind \in RuleReplies(FirstRule(lowered))

\* empty or blank: absent, zero-length, or whitespace only
Blank(q) == IsNone(q) \/ str_strip(Val(q)) = <<>>

\* C6 (as stated): an empty or blank question is answered with the
\* prompt-for-input message, whatever the dataset and the filters.
C6_BlankQuestionPrompt ==
    (Asked /\ Blank(user_input)) => reply.kind = "prompt"

\* the filter description the reply is to name for a FilterSpec
DescriptionOf(categories, states, statuses) ==
    IF Unrestricted(categories) /\ Unrestricted(states) /\ Unrestricted(statuses)
    THEN "overall data"
    ELSE "current filtered view"

\* the reply that a question asked now is to get when the view is empty
NoDataReply ==
    /\ reply'.kind = "no_data"
    /\ reply'.desc = DescriptionOf(category_filter, state_filter, status_filter)

\* a step that leaves the dropdowns alone is a run of analyze_data_view over
\* the current FilterSpec; its view is empty
AskOverEmptyView ==
    /\ filters' = filters
    /\ SpecifiedView(df, category_filter, state_filter, status_filter) = <<>>

\* C7 (as stated): whenever the filtered view is empty, any question is
\* answered with the "no data" message naming the filter description.
C7_EmptyViewAnyQuestion == [][AskOverEmptyView => NoDataReply]_vars

\* C7 (amended): whenever the filtered view is empty, any question that is
\* neither absent nor zero-length is answered with the "no data" message
\* naming the filter description, whatever rule the question would match.
C7_EmptyViewNoData ==
    [][(AskOverEmptyView /\ ~IsNone(user_input') /\ Val(user_input') # <<>>)
            => NoDataReply]_vars

\* C7 witness: the filters leave no row of a dataset that holds the order the
\* question asks about, and the reply is the "no data" message
C7_Witness ==
    /\ Asked
    /\ ~IsNone(user_input)
    /\ chat_dff = Some(<<>>)
    /\ reply.kind = "no_data"
    /\ reply.desc = "current filtered view"
    /\ ~IsNone(match_order(lowered))
    /\ eq_rows(df, "Order_ID", Val(match_order(lowered)).order_id) # <<>>

\* C8: analyze_data_view always ends with a reply, never with an exception
\* leaving the callback; when the rules raise one over a non-empty view, the
\* reply is the analysis-failed message.
C8_ErrorsCaught ==
    /\ ~chat_response.raised
    /\ (AnsweredOverView /\ (\E o \in try_block(df, view, reply.desc, lowered) : o.raised))
            => reply.kind = "analysis_failed"

\* C8 witness: a question whose entity was found in the view, so that the
\* formatting raised, answered with the analysis-failed message
C8_Witness ==
    /\ AnsweredOverView
    /\ ~IsNone(match_specific(lowered))
    /\ reply.kind = "analysis_failed"

\* the column a "top ..." reply ranks
TopColumn(kind) ==
    CASE kind = "top_category" -> "Category"
      [] kind = "top_city" -> "ship_city"
      [] kind = "top_state" -> "ship_state"

TopKinds == {"top_category", "top_city", "top_state"}

\* the sum of amount of the group of key k
GroupSum(v, col, k) == sum_amount(eq_rows(v, col, k))

\* top_n of the specification: the groups with their sums, descending by
\* sum, equal sums in the order their keys first appear, the first n of them
TopN(v, col, n) ==
    LET fa == first_appearance(v, col)
        before(j, i) ==
            \/ GroupSum(v, col, fa[j]) > GroupSum(v, col, fa[i])
            \/ (GroupSum(v, col, fa[j]) = GroupSum(v, col, fa[i]) /\ j < i)
        rank(i) == Cardinality({j \in 1..Len(fa) : before(j, i)}) + 1
        m == IF n < Len(fa) THEN n ELSE Len(fa)
    IN  [r \in 1..m |->
            LET i == CHOOSE i \in 1..Len(fa) : rank(i) = r
            IN  [key |-> fa[i], val |-> GroupSum(v, col, fa[i])]]

\* a "top ..." question was answered with a group of the view
TopAnswered == Asked /\ ~IsNone(chat_dff) /\ reply.kind \in TopKinds

\* s is a selection of at most n groups of v with their sums, none of the
\* groups left out larger than one taken, in ascending order of sum
IsAscendingTop(s, v, col, n) ==
    LET keys == unique(v, col)
        taken == {s[i].key : i \in 1..Len(s)}
    IN  /\ Len(s) = (IF n < Cardinality(keys) THEN n ELSE Cardinality(keys))
        /\ taken \subseteq keys
        /\ \A i, j \in 1..Len(s) : i # j => s[i].key # s[j].key
        /\ \A i \in 1..Len(s) : s[i].val = GroupSum(v, col, s[i].key)
        /\ \A k \in keys \ taken : \A i \in 1..Len(s) : GroupSum(v, col, k) <= s[i].val
        /\ \A i, j \in 1..Len(s) : i < j => s[i].val <= s[j].val

\* C9 (as stated): the "top category" / "top city" / "top state" answer is
\* the first entry of top_n(view, key, 1), and a bar chart shows
\* top_n(view, key, 10): at most n groups with their sums, descending by sum,
\* equal sums in the order their keys first appear in the view.
C9_TopNFirstAppearance ==
    /\ TopAnswered =>
        LET top == TopN(view, TopColumn(reply.kind), 1)[1]
        IN  /\ reply.subject = top.key
            /\ reply.number = Format(top.val, 1, FormatCurrency)
    /\ ~empty(dash_dff) =>
        /\ top_categories.data = TopN(dash_dff, "Category", ChartTopN)
        /\ top_cities.data = TopN(dash_dff, "ship_city", ChartTopN)

\* C9 (amended): the "top ..." answer names a group of the largest sum, with
\* that sum, and of the groups of the largest sum the one whose key is the
\* smallest in string order; a bar chart holds the n = 10 groups of the
\* largest sums (all of them when there are fewer), each with its sum, in
\* ascending order of sum; the same holds of the ranking for every smaller n.
C9_TopNRanking ==
    /\ TopAnswered =>
        LET col == TopColumn(reply.kind)
        IN  /\ reply.subject \in unique(view, col)
            /\ reply.number = Format(GroupSum(view, col, reply.subject), 1, FormatCurrency)
            /\ \A k \in unique(view, col) :
                /\ GroupSum(view, col, k) <= GroupSum(view, col, reply.subject)
                /\ GroupSum(view, col, k) = GroupSum(view, col, reply.subject)
                        => (k = reply.subject \/ StrLess(reply.subject, k))
    /\ ~empty(dash_dff) =>
        /\ IsAscendingTop(top_categories.data, dash_dff, "Category", ChartTopN)
        /\ IsAscendingTop(top_cities.data, dash_dff, "ship_city", ChartTopN)
        /\ \A n \in 1..ChartTopN : \A col \in {"Category", "ship_city"} :
                \A s \in top_n_outcomes(dash_dff, col, n) :
                    IsAscendingTop(s, dash_dff, col, n)

\* C9 witness: a "top category" answer over a view with two categories of
\* the same sum, naming the one that does not appear first in the view, and
\* a bar chart of two categories
C9_Witness ==
    /\ TopAnswered
    /\ reply.kind = "top_category"
    /\ reply.subject # view[1].Category
    /\ GroupSum(view, "Category", reply.subject)
            = GroupSum(view, "Category", view[1].Category)
    /\ ~empty(dash_dff)
    /\ Len(top_categories.data) = 2

\* a status question was answered with the listing
StatusListed == Asked /\ ~IsNone(chat_dff) /\ reply.kind = "status_summary"

\* the number of records of v with status k, as the listing prints it
StatusCount(v, k) == Len(eq_rows(v, "Status", k))

\* the listing names every status of the view exactly once, each with the
\* number of view records having it
ListsEveryStatusOnce ==
    /\ {reply.lines[i].text : i \in 1..Len(reply.lines)} = unique(view, "Status")
    /\ Len(reply.lines) = Cardinality(unique(view, "Status"))
    /\ \A i \in 1..Len(reply.lines) :
            reply.lines[i].number
                = Format(StatusCount(view, reply.lines[i].text), 1, FormatThousands)

\* C10 (as stated): a "status summary" / "order status" answer over a
\* non-empty view lists every status of the view exactly once with its number
\* of records, in the order in which the statuses first appear in the view.
C10_StatusFirstAppearance ==
    StatusListed =>
        /\ ListsEveryStatusOnce
        /\ [i \in 1..Len(reply.lines) |-> reply.lines[i].text]
                = first_appearance(view, "Status")

\* C10 (amended): a "status summary" / "order status" answer over a
\* non-empty view lists every status of the view exactly once with its number
\* of records, a status of more records before a status of fewer.
C10_StatusByCount ==
    StatusListed =>
        /\ ListsEveryStatusOnce
        /\ \A i, j \in 1..Len(reply.lines) :
                i < j => StatusCount(view, reply.lines[i].text)
                            >= StatusCount(view, reply.lines[j].text)

\* C10 witness: a listing of two statuses whose first line is not the status
\* of the first record of the view but the status of more records
C10_Witness ==
    /\ StatusListed
    /\ Len(reply.lines) = 2
    /\ reply.lines[1].text # view[1].Status
    /\ StatusCount(view, reply.lines[1].text) > StatusCount(view, reply.lines[2].text)

\* the view of the current FilterSpec
CurrentView == SpecifiedView(df, category_filter, state_filter, status_filter)

\* total(view): the sum of amount over the records of v
Total(v) ==
    LET partial[i \in 0..Len(v)] == IF i = 0 THEN 0 ELSE partial[i - 1] + v[i].Amount
    IN  partial[Len(v)]

\* shown, a number of hundredths, is total / count to two decimals: no other
\* number of hundredths is nearer to the quotient
IsMeanShown(shown, total, count) ==
    LET d == shown * count - 100 * total
    IN  2 * (IF d < 0 THEN -d ELSE d) <= count

\* an "average amount" / "average sales" question was answered with a mean
AverageAnswered == Asked /\ ~IsNone(chat_dff) /\ reply.kind = "average"

\* C11: after every filter change the three KPIs are, for the view of the new
\* FilterSpec, the sum of amount, the number of records and the sum divided
\* by that number (shown to two decimals); for an empty view they are 0, 0
\* and 0, no quotient being taken; and the "average amount" answer is the
\* mean of a view of at least one record, never a quotient by zero.
C11_KpisOfCurrentView ==
    /\ kpi_container.sales = [spec |-> FormatCurrency, digits |-> 100 * Total(CurrentView)]
    /\ kpi_container.orders = [spec |-> FormatThousands, digits |-> Len(CurrentView)]
    /\ kpi_container.avg_value.spec = FormatCurrency
    /\ CurrentView = <<>> => kpi_container.avg_value.digits = 0
    /\ CurrentView # <<>> =>
            IsMeanShown(kpi_container.avg_value.digits, Total(CurrentView), Len(CurrentView))
    /\ AverageAnswered =>
            /\ Len(view) > 0
            /\ reply.number.spec = FormatCurrency
            /\ IsMeanShown(reply.number.digits, Total(view), Len(view))
    /\ Asked => reply.kind # "cannot_average"

\* C11 witness: after a filter change that leaves three records whose mean
\* is not a whole number of hundredths, the KPIs show their sum, their number
\* and the rounded mean, and the "average amount" answer shows the same mean
C11_Witness ==
    /\ filters # <<None, None, None>>
    /\ Len(CurrentView) = 3
    /\ (100 * Total(CurrentView)) % 3 # 0
    /\ kpi_container.avg_value.digits * 3 # 100 * Total(CurrentView)
    /\ AverageAnswered
    /\ view = CurrentView
    /\ reply.number = kpi_container.avg_value

\* the replies analyze_data_view gives for the dataset, a question and the
\* dropdown values, whatever was asked or selected before
RepliesFor(d, q, categories, states, statuses) ==
    {o.result : o \in chat_results[d][q][categories][states][statuses]}

\* the step is a submission: the dropdowns stay and the chat output is written
Submission == filters' = filters /\ <<user_input, chat_dff, chat_response>>' # <<user_input, chat_dff, chat_response>>

\* C12: no filter change and no submission, in any interleaving, adds,
\* removes, reorders or modifies a record of the dataset, so it stays the
\* dataset built at startup; and the reply to a submission is the reply for
\* that dataset, the question and the dropdown values alone, whatever
\* question, reply or dashboard output preceded it.
C12_DatasetImmutable ==
    [][/\ df' = df
       /\ Submission => chat_response' \in
            RepliesFor(df, user_input', category_filter, state_filter, status_filter)]_vars

\* C12 witness: questions and filter changes have interleaved (the last
\* question was answered over another view than the current one, and the
\* dashboard shows fewer records than the dataset holds) and the dataset
\* still has its three records
C12_Witness ==
    /\ Asked
    /\ ~IsNone(chat_dff)
    /\ view # CurrentView
    /\ view # df
    /\ dash_dff = CurrentView
    /\ dash_dff # df
    /\ Len(df) = MaxRecords

=============================================================================
